---- MODULE Spec2Model ----
(***************************************************************************)
(* A model of the quiz engine of src/bot.py: the Firestore documents the   *)
(* handlers read and write (users, leaderboard, referrals, ads), and one   *)
(* action per Telegram handler (start, the callbacks of callback_router).  *)
(*                                                                         *)
(* Spec is the dispatch that main() builds: ApplicationBuilder().build()   *)
(* handles one update at a time, so every handler runs to its end before   *)
(* the next one starts. SpecConc is the concurrency of section 5 of the    *)
(* specification: several units of work against the same store, each       *)
(* handler's reads and writes being separate store calls with no lock and  *)
(* no transaction around them.                                             *)
(***************************************************************************)
EXTENDS Integers, Sequences, FiniteSets, TLC

VARIABLES
    users,      \* collection 'users': user id -> document
    lb,         \* collection 'leaderboard': user id -> document
    referrals,  \* collection 'referrals': (inviter, invited, dept) -> number of records
    ads,        \* collection 'ads': sequence of ad documents, in insertion order
    out,        \* what the last handler did (its result payload)
    budget,     \* what the environment still does: answers accepted, quizzes started
    pend        \* SpecConc: handlers that have read the store and not yet written

vars == <<users, lb, referrals, ads, out, budget, pend>>

----------------------------------------------------------------------------
(* Policy constants of the code *)

PREVIEW_LIMIT == 25
QUIZ_LENGTH == 100
AD_INTERVAL == 5
REFERRAL_THRESHOLD == 2

(* Bounds of the model *)

NumUsers == 4
MaxAds == 1
MaxAdBreaks == 2
MaxAnswers == 2
MaxCorrect == 1
MaxStarts == 1
MaxContacts == 2
MaxReferred == 3
MaxPend == 2
MaxStoredAds == 3
MaxOrderIndex == 2
MaxBreakCounter == 6

----------------------------------------------------------------------------
(* The content store: departments and their question banks. d1 holds 101   *)
(* questions, d2 holds 26 (question 27 is missing), dx does not exist.     *)
(* Question documents are stored as uploaded (q_doc.set(q)).               *)

Users == 1..NumUsers
QuizUsers == {1}
Inviters == {1}
NoUser == 0
Depts == {"d1", "d2", "dx"}
RefDepts == {"d1", "d2"}
NoDept == "none"
Choices == {"a", "b"}
NoAd == 0

QuestionNumbers(d) ==
    IF d = "d1" THEN 1..101
    ELSE IF d = "d2" THEN 1..26
    ELSE {}

\* the stored answer key of question n of department d, as uploaded: the bank
\* of d2 was written with upper-case keys
AnswerKey(d, n) ==
    IF d = "d2" THEN (IF n % 2 = 1 THEN "A" ELSE "B")
    ELSE (IF n % 2 = 1 THEN "a" ELSE "b")

\* str.lower() on an option letter
Lower(k) == IF k = "A" THEN "a" ELSE IF k = "B" THEN "b" ELSE k

----------------------------------------------------------------------------
(* Documents *)

NoSession ==
    [has |-> FALSE, dept |-> NoDept, idx |-> 0, correct |-> 0, attempted |-> 0,
     active |-> FALSE, adc |-> 0]

\* the session start_quiz writes
NewSession(d) ==
    [has |-> TRUE, dept |-> d, idx |-> 0, correct |-> 0, attempted |-> 0,
     active |-> TRUE, adc |-> 0]

\* the document create_user sets
FreshUser ==
    [exists |-> TRUE, ta |-> 0, tc |-> 0,
     rc |-> [d \in Depts |-> 0], ul |-> [d \in Depts |-> FALSE],
     sess |-> NoSession]

NoUserDoc == [FreshUser EXCEPT !.exists = FALSE]

NoStats == [attempts |-> 0, correct |-> 0]
NoLbDoc == [exists |-> FALSE, departments |-> [d \in Depts |-> NoStats]]

RefKeys == Users \X Users \X RefDepts

\* a parsed /start parameter: ref_<inviter>_dept_<dept>, ref_<inviter>, dept_<dept>
NoArg == [kind |-> "none", inviter |-> NoUser, dept |-> NoDept]
RefArg(i, d) == [kind |-> "ref", inviter |-> i, dept |-> d]
DeptArg(d) == [kind |-> "dept", inviter |-> NoUser, dept |-> d]

\* the result payload of a handler: which handler (op) for which user, what it
\* answered (res), the question and the ad it sent, the inviter it notified
\* (sig, sigdept), the input it was given (arg, qn; brk for an ad selection),
\* and whether it created the user's document (new)
NoOut == [op |-> "init", u |-> NoUser, res |-> "None", q |-> 0, ad |-> NoAd,
          sig |-> NoUser, sigdept |-> NoDept, arg |-> NoArg, qn |-> 0,
          new |-> FALSE, brk |-> 0]

----------------------------------------------------------------------------
(* get_ad_to_show: the active ads ordered by order_index, indexed circularly *)

\* order_by('order_index'): ascending, documents of equal order_index in the
\* order of their document ids
Before(x, y) == x.oi < y.oi \/ (x.oi = y.oi /\ x.id <= y.id)

RECURSIVE SortByOrder(_)
SortByOrder(S) ==
    IF S = {} THEN <<>>
    ELSE LET m == CHOOSE x \in S : \A y \in S : Before(x, y)
         IN  <<m>> \o SortByOrder(S \ {m})

\* a variant of the query without where('isActive', '==', True)
ActiveAdsUnfiltered(A) == SortByOrder({A[i] : i \in 1..Len(A)})

ActiveAds(A) == SortByOrder({A[i] : i \in {j \in 1..Len(A) : A[j].active}})

get_ad_to_show(A, current_index) ==
    LET active == ActiveAds(A)
    IN  IF Len(active) = 0 THEN NoAd
        ELSE active[(current_index % Len(active)) + 1].id

----------------------------------------------------------------------------
(* send_question: the delivery pipeline, run on the session object the     *)
(* caller passes (a snapshot), against the store U as it is now.           *)

Unlocked(doc, d) == doc.exists /\ d \in Depts /\ doc.ul[d]

Result(U, res, q, ad) == [users |-> U, res |-> res, q |-> q, ad |-> ad]

\* a variant that tests the lock from question 25 on and for any department
LockCheckAnyDept(U, user_id, session) ==
    session.idx = PREVIEW_LIMIT
    /\ ~(U[user_id].exists /\ \E d \in Depts : U[user_id].ul[d])

\* a variant that never locks
LockCheckNever(U, user_id, session) == FALSE

LockCheck(U, user_id, session) ==
    session.idx = PREVIEW_LIMIT /\ ~Unlocked(U[user_id], session.dept)

\* a variant that never ends the session
CompletionCheckNever(session) == FALSE

CompletionCheck(session) == session.idx >= QUIZ_LENGTH

AdDue(session) == session.idx > 0 /\ session.idx % AD_INTERVAL = 0

\* a variant in which completion leaves the session active
DeactivateSkipped(U, user_id) == U

\* update({'currentSession.sessionActive': False}) on the stored document
Deactivate(U, user_id) ==
    [U EXCEPT ![user_id].sess = [@ EXCEPT !.has = TRUE, !.active = FALSE]]

\* a variant that counts an ad break twice
PersistAdBreakCountsTwice(U, user_id, session) ==
    [U EXCEPT ![user_id].sess = [session EXCEPT !.adc = @ + 2]]

\* a variant in which the ad break is counted as an attempt
PersistAdBreakCountsAttempt(U, user_id, session) ==
    [U EXCEPT ![user_id].ta = @ + 1,
              ![user_id].sess = [session EXCEPT !.adc = @ + 1, !.attempted = @ + 1]]

\* a variant in which the ad break takes the place of a question
PersistAdBreakAdvances(U, user_id, session) ==
    [U EXCEPT ![user_id].sess = [session EXCEPT !.adc = @ + 1, !.idx = @ + 1]]

\* session['ad_break_counter'] += 1; update({'currentSession': session})
PersistAdBreak(U, user_id, session) ==
    [U EXCEPT ![user_id].sess = [session EXCEPT !.adc = @ + 1]]

\* a variant that runs the ad break before the lock and completion checks
send_question_ad_first(U, A, user_id, session) ==
    IF ~session.has \/ session.dept = NoDept \/ ~U[user_id].exists
    THEN Result(U, "Error", 0, NoAd)
    ELSE LET ad == IF AdDue(session) THEN get_ad_to_show(A, session.adc) ELSE NoAd
             U2 == IF ad # NoAd THEN PersistAdBreak(U, user_id, session) ELSE U
             q_num == session.idx + 1
         IN  IF LockCheck(U, user_id, session) THEN Result(U2, "Locked", 0, ad)
             ELSE IF CompletionCheck(session)
             THEN Result(Deactivate(U2, user_id), "Completed", 0, ad)
             ELSE IF q_num \in QuestionNumbers(session.dept)
             THEN Result(U2, "Question", q_num, ad)
             ELSE Result(U2, "NotFound", 0, ad)

send_question(U, A, user_id, session) ==
    IF ~session.has \/ session.dept = NoDept
    THEN Result(U, "Error", 0, NoAd)
    ELSE IF LockCheck(U, user_id, session)
    THEN Result(U, "Locked", 0, NoAd)
    ELSE IF CompletionCheck(session)
    THEN IF U[user_id].exists
         THEN Result(Deactivate(U, user_id), "Completed", 0, NoAd)
         ELSE Result(U, "Error", 0, NoAd)
    ELSE LET ad == IF AdDue(session) THEN get_ad_to_show(A, session.adc) ELSE NoAd
             U2 == IF ad # NoAd THEN PersistAdBreak(U, user_id, session) ELSE U
             q_num == session.idx + 1
         IN  IF ad # NoAd /\ ~U[user_id].exists
             THEN Result(U, "Error", 0, NoAd)
             ELSE IF q_num \in QuestionNumbers(session.dept)
             THEN Result(U2, "Question", q_num, ad)
             ELSE Result(U2, "NotFound", 0, ad)

----------------------------------------------------------------------------
(* create_user: set the new user's document, then record the referral      *)

\* a variant without the comparison of the referrer with the new user
ReferralValidNoSelfCheck(user_id, referrer_id, ref_dept) ==
    referrer_id # NoUser /\ ref_dept # NoDept

\* the guard of line 99: a referrer, another user than the new one, a department
ReferralValid(user_id, referrer_id, ref_dept) ==
    referrer_id # NoUser /\ referrer_id # user_id /\ ref_dept # NoDept

\* a variant without the merge-set: nothing is counted for an inviter who has
\* no document
IncrementReferralNoCreate(U, referrer_id, ref_dept) ==
    IF U[referrer_id].exists
    THEN [U EXCEPT ![referrer_id].rc[ref_dept] = @ + 1]
    ELSE U

\* a variant that always takes the merge-set branch: the counter restarts at 1
IncrementReferralRestarts(U, referrer_id, ref_dept) ==
    [U EXCEPT ![referrer_id].exists = TRUE, ![referrer_id].rc[ref_dept] = 1]

\* inviter_ref.update(Increment(1)), or the merge-set when the document is missing
IncrementReferral(U, referrer_id, ref_dept) ==
    IF U[referrer_id].exists
    THEN [U EXCEPT ![referrer_id].rc[ref_dept] = @ + 1]
    ELSE [U EXCEPT ![referrer_id].exists = TRUE, ![referrer_id].rc[ref_dept] = 1]

\* a variant that unlocks only above the threshold
ThresholdReachedStrict(U, referrer_id, ref_dept) ==
    U[referrer_id].exists /\ U[referrer_id].rc[ref_dept] > REFERRAL_THRESHOLD

\* dept_count >= 2: the threshold test of line 124
ThresholdReached(U, referrer_id, ref_dept) ==
    U[referrer_id].exists /\ U[referrer_id].rc[ref_dept] >= REFERRAL_THRESHOLD

AddReferral(R, referrer_id, user_id, ref_dept) ==
    [R EXCEPT ![<<referrer_id, user_id, ref_dept>>] = @ + 1]

create_user(U, R, user_id, referrer_id, ref_dept) ==
    LET U1 == [U EXCEPT ![user_id] = FreshUser]
    IN  IF ReferralValid(user_id, referrer_id, ref_dept)
        THEN LET U2 == IncrementReferral(U1, referrer_id, ref_dept)
                 dept_unlocked == ThresholdReached(U2, referrer_id, ref_dept)
                 U3 == IF dept_unlocked
                       THEN [U2 EXCEPT ![referrer_id].ul[ref_dept] = TRUE]
                       ELSE U2
             IN  [users |-> U3,
                  referrals |-> AddReferral(R, referrer_id, user_id, ref_dept),
                  referral_recorded |-> TRUE, dept_unlocked |-> dept_unlocked]
        ELSE [users |-> U1, referrals |-> R,
              referral_recorded |-> FALSE, dept_unlocked |-> FALSE]

----------------------------------------------------------------------------
(* start_quiz: overwrite the session, then deliver question 1              *)

\* a variant that merges the new session into the stored one: the counters of
\* the previous session survive
OverwriteSessionMerged(U, user_id, session) ==
    [U EXCEPT ![user_id].sess =
        [session EXCEPT !.correct = U[user_id].sess.correct,
                        !.adc = U[user_id].sess.adc]]

\* update({'currentSession': session}): the stored map is replaced as a whole
OverwriteSession(U, user_id, session) ==
    [U EXCEPT ![user_id].sess = session]

start_quiz(U, A, user_id, dept_id) ==
    IF ~U[user_id].exists
    THEN Result(U, "Error", 0, NoAd)
    ELSE LET session == NewSession(dept_id)
         IN  send_question(OverwriteSession(U, user_id, session), A, user_id, session)

----------------------------------------------------------------------------
(* start: the /start command. arg is the parsed deep-link parameter.       *)

\* the deep-link parameters the environment sends. On first contact: none, a
\* link of an inviter (with or without a department), the user's own link, a
\* department link. Later: none, one referral link, a department link.
StartArgs(u, known) ==
    {NoArg, RefArg(u, "d1")}
    \cup (IF known
          THEN {RefArg(i, "d1") : i \in Inviters}
          ELSE {RefArg(i, d) : i \in Inviters \ {u}, d \in RefDepts \cup {NoDept}})
    \cup (IF u \in QuizUsers THEN {DeptArg(d) : d \in Depts} ELSE {})

\* with the outcome of check_membership; a non-member is sent away whatever
\* the parameter, so the environment tries it with a department link or none
StartInputs(u, known) ==
    {<<arg, TRUE>> : arg \in StartArgs(u, known)}
    \cup {<<arg, FALSE>> : arg \in StartArgs(u, known) \cap {NoArg, DeptArg("d1")}}

\* user_data is the document start() read first (snap); U is the store now
start(U, R, A, user_id, snap, arg, is_member) ==
    LET referrer == IF arg.kind = "ref" THEN arg.inviter ELSE NoUser
        ref_dept == IF arg.kind = "ref" THEN arg.dept ELSE NoDept
        created  == IF ~snap.exists
                    THEN create_user(U, R, user_id, referrer, ref_dept)
                    ELSE [users |-> U, referrals |-> R,
                          referral_recorded |-> FALSE, dept_unlocked |-> FALSE]
        user_data == IF ~snap.exists THEN created.users[user_id] ELSE snap
        notify   == created.referral_recorded /\ referrer # NoUser
                    /\ created.dept_unlocked /\ ref_dept # NoDept
        base     == [users |-> created.users, referrals |-> created.referrals,
                     res |-> "Menu", q |-> 0, ad |-> NoAd,
                     sig |-> IF notify THEN referrer ELSE NoUser,
                     sigdept |-> IF notify THEN ref_dept ELSE NoDept]
    IN  IF ~is_member
        THEN [base EXCEPT !.res = "Denied"]
        ELSE IF user_data.sess.has /\ user_data.sess.active
        THEN [base EXCEPT !.res = "ResumePrompt"]
        ELSE IF arg.kind = "dept"
        THEN LET r == start_quiz(created.users, A, user_id, arg.dept)
             IN  [base EXCEPT !.users = r.users, !.res = r.res, !.q = r.q, !.ad = r.ad]
        ELSE base

----------------------------------------------------------------------------
(* handle_answer. snap is the user document read at line 464; the writes   *)
(* are increments applied to the store as it is when they arrive.          *)

\* a variant without the ordinal check of line 472
AnswerVerdictNoOrdinal(snap, q_num) ==
    IF ~snap.exists THEN "Error"
    ELSE IF ~snap.sess.has \/ ~snap.sess.active THEN "SessionExpired"
    ELSE IF q_num \notin QuestionNumbers(snap.sess.dept) THEN "Error"
    ELSE "Accepted"

AnswerVerdict(snap, q_num) ==
    IF ~snap.exists THEN "Error"
    ELSE IF ~snap.sess.has \/ ~snap.sess.active THEN "SessionExpired"
    ELSE IF snap.sess.idx + 1 # q_num THEN "StaleAnswer"
    ELSE IF q_num \notin QuestionNumbers(snap.sess.dept) THEN "Error"
    ELSE "Accepted"

\* a variant that counts every accepted answer as correct
IsCorrectAlways(dept_id, q_num, selected_opt) == TRUE

IsCorrect(dept_id, q_num, selected_opt) == selected_opt = AnswerKey(dept_id, q_num)

\* a variant that leaves attempted_in_session out of the update
UpdateStatsNoAttempted(U, user_id, is_correct) ==
    LET c == IF is_correct THEN 1 ELSE 0
    IN  [U EXCEPT ![user_id].ta = @ + 1,
                  ![user_id].tc = @ + c,
                  ![user_id].sess = [@ EXCEPT !.has = TRUE,
                                              !.idx = @ + 1,
                                              !.correct = @ + c]]

\* user_doc.update(updates): every field is a firestore.Increment
UpdateStats(U, user_id, is_correct) ==
    LET c == IF is_correct THEN 1 ELSE 0
    IN  [U EXCEPT ![user_id].ta = @ + 1,
                  ![user_id].tc = @ + c,
                  ![user_id].sess = [@ EXCEPT !.has = TRUE,
                                              !.attempted = @ + 1,
                                              !.idx = @ + 1,
                                              !.correct = @ + c]]

\* a variant without the merge-set: a missing leaderboard document stays missing
UpdateLeaderboardNoCreate(L, user_id, dept, is_correct) ==
    LET c == IF is_correct THEN 1 ELSE 0
    IN  IF dept \notin Depts \/ ~L[user_id].exists THEN L
        ELSE [L EXCEPT ![user_id].departments[dept] =
                 [attempts |-> @.attempts + 1, correct |-> @.correct + c]]

\* lb_ref.update(Increment), or the merge-set when the document is missing
UpdateLeaderboard(L, user_id, dept, is_correct) ==
    LET c == IF is_correct THEN 1 ELSE 0
    IN  IF dept \notin Depts THEN L
        ELSE IF L[user_id].exists
        THEN [L EXCEPT ![user_id].departments[dept] =
                 [attempts |-> @.attempts + 1, correct |-> @.correct + c]]
        ELSE [L EXCEPT ![user_id].exists = TRUE,
                       ![user_id].departments[dept] = [attempts |-> 1, correct |-> c]]

handle_answer(U, L, user_id, snap, q_num, selected_opt) ==
    LET verdict == AnswerVerdict(snap, q_num)
        dept_id == snap.sess.dept
        is_correct == IsCorrect(dept_id, q_num, selected_opt)
    IN  IF verdict = "Accepted" /\ U[user_id].exists
        THEN [users |-> UpdateStats(U, user_id, is_correct),
              lb |-> UpdateLeaderboard(L, user_id, dept_id, is_correct),
              res |-> "Accepted", correct |-> is_correct]
        ELSE [users |-> U, lb |-> L,
              res |-> IF verdict = "Accepted" THEN "Error" ELSE verdict,
              correct |-> FALSE]

----------------------------------------------------------------------------
(* next_question_handler and the check_lock branch of callback_router      *)

next_question_handler(U, A, user_id, snap) ==
    IF ~snap.exists THEN Result(U, "Error", 0, NoAd)
    ELSE send_question(U, A, user_id, snap.sess)

SumReferrals(doc) ==
    LET RECURSIVE Sum(_)
        Sum(S) == IF S = {} THEN 0
                  ELSE LET d == CHOOSE x \in S : TRUE
                       IN  doc.rc[d] + Sum(S \ {d})
    IN  Sum(Depts)

\* dept = NoDept is the callback 'check_lock' without a department
check_lock(U, A, user_id, snap, dept) ==
    IF ~snap.exists THEN Result(U, "Error", 0, NoAd)
    ELSE IF dept # NoDept
    THEN IF snap.ul[dept]
         THEN next_question_handler(U, A, user_id, U[user_id])
         ELSE Result(U, "NotUnlocked", 0, NoAd)
    ELSE IF SumReferrals(snap) >= REFERRAL_THRESHOLD
         THEN next_question_handler(U, A, user_id, U[user_id])
         ELSE Result(U, "NotUnlocked", 0, NoAd)

----------------------------------------------------------------------------
(* The store after deployment, and the stores a quiz user can have reached *)
(* before the window the model explores: the user made first contact,      *)
(* started department d and answered its first i0 questions wrongly while  *)
(* no ad was stored (no ad break was counted). Beyond the preview the       *)
(* department was unlocked first: users 2 and 3 made first contact through  *)
(* the user's referral link for d.                                          *)

StartIdx == {4, 24, 99}

NoReferrals == [k \in RefKeys |-> 0]

EmptyStore ==
    /\ users = [u \in Users |-> NoUserDoc]
    /\ lb = [u \in Users |-> NoLbDoc]
    /\ referrals = NoReferrals

Checkpoint(u, d, i0) ==
    LET invited == IF i0 > PREVIEW_LIMIT THEN {2, 3} ELSE {}
        n == Cardinality(invited)
    IN  /\ users = [v \in Users |->
                      IF v = u
                      THEN [FreshUser EXCEPT
                               !.ta = i0,
                               !.rc[d] = n,
                               !.ul[d] = (n >= REFERRAL_THRESHOLD),
                               !.sess = [NewSession(d) EXCEPT !.idx = i0,
                                                              !.attempted = i0]]
                      ELSE IF v \in invited THEN FreshUser
                      ELSE NoUserDoc]
        /\ lb = [v \in Users |->
                      IF v = u
                      THEN [NoLbDoc EXCEPT !.exists = TRUE,
                                           !.departments[d].attempts = i0]
                      ELSE NoLbDoc]
        /\ referrals = [k \in RefKeys |->
                          IF k[1] = u /\ k[2] \in invited /\ k[3] = d THEN 1 ELSE 0]

\* what the environment does in a run: a quiz with few invited users, or
\* many invited users and no quiz
Profiles ==
    {[answers |-> MaxAnswers, starts |-> MaxStarts, contacts |-> MaxContacts],
     [answers |-> 0, starts |-> 0, contacts |-> MaxReferred]}

Init ==
    /\ \/ EmptyStore
       \/ \E i0 \in StartIdx :
             /\ 1..i0 \subseteq QuestionNumbers("d1")
             /\ Checkpoint(1, "d1", i0)
    /\ ads = <<>>
    /\ out = NoOut
    /\ budget \in Profiles
    /\ pend = <<>>

----------------------------------------------------------------------------
(* The handlers as atomic actions: one update handled from start to end    *)

\* the outcomes of send_question: the handler got as far as the pipeline
Delivered == {"Question", "Locked", "Completed", "NotFound"}

Emit(op, u, r, arg) ==
    [NoOut EXCEPT !.op = op, !.u = u, !.res = r.res, !.q = r.q, !.ad = r.ad,
                  !.arg = arg]

AdBreaksBounded(U) == \A u \in Users : U[u].sess.adc <= MaxAdBreaks

\* the invited users are alike: they make first contact in the order of their ids
FirstContactAllowed(u) ==
    IF u \in QuizUsers THEN TRUE
    ELSE /\ budget.contacts > 0
         /\ IF u - 1 \in QuizUsers THEN TRUE ELSE users[u - 1].exists

Spend(started, contacted, answered) ==
    [answers  |-> budget.answers - (IF answered THEN 1 ELSE 0),
     starts   |-> budget.starts - (IF started THEN 1 ELSE 0),
     contacts |-> budget.contacts - (IF contacted THEN 1 ELSE 0)]

Start(u, arg, is_member) ==
    LET r == start(users, referrals, ads, u, users[u], arg, is_member)
        started == r.res \in Delivered
        contacted == ~users[u].exists /\ u \notin QuizUsers
    IN  /\ started => budget.starts > 0
        /\ ~users[u].exists => FirstContactAllowed(u)
        /\ users' = r.users
        /\ referrals' = r.referrals
        /\ budget' = Spend(started, contacted, FALSE)
        /\ out' = [Emit("start", u, r, arg) EXCEPT !.sig = r.sig, !.sigdept = r.sigdept,
                                                   !.new = ~users[u].exists]
        /\ UNCHANGED <<lb, ads, pend>>

StartQuiz(u, dept_id) ==
    LET r == start_quiz(users, ads, u, dept_id)
        started == r.res \in Delivered
    IN  /\ started => budget.starts > 0
        /\ users' = r.users
        /\ budget' = Spend(started, FALSE, FALSE)
        /\ out' = Emit("dept", u, r, DeptArg(dept_id))
        /\ UNCHANGED <<lb, referrals, ads, pend>>

Answer(u, q_num, selected_opt) ==
    LET r == handle_answer(users, lb, u, users[u], q_num, selected_opt)
    IN  /\ r.res = "Accepted" => budget.answers > 0
        /\ r.correct => users[u].tc < MaxCorrect
        /\ users' = r.users
        /\ lb' = r.lb
        /\ budget' = Spend(FALSE, FALSE, r.res = "Accepted")
        /\ out' = [NoOut EXCEPT !.op = "ans", !.u = u, !.res = r.res, !.qn = q_num]
        /\ UNCHANGED <<referrals, ads, pend>>

\* 'next_question' and 'resume_session' both call next_question_handler
NextQuestion(u) ==
    LET r == next_question_handler(users, ads, u, users[u])
    IN  /\ AdBreaksBounded(r.users)
        /\ users' = r.users
        /\ out' = Emit("next", u, r, NoArg)
        /\ UNCHANGED <<lb, referrals, ads, budget, pend>>

CheckLock(u, dept) ==
    LET r == check_lock(users, ads, u, users[u], dept)
    IN  /\ AdBreaksBounded(r.users)
        /\ users' = r.users
        /\ out' = Emit("check_lock", u, r, DeptArg(dept))
        /\ UNCHANGED <<lb, referrals, ads, budget, pend>>

\* a variant of 'home_exit' that marks the session inactive
HomeExitDeactivates(u) ==
    /\ users[u].exists /\ users[u].sess.has
    /\ users' = Deactivate(users, u)
    /\ out' = [NoOut EXCEPT !.op = "home_exit", !.u = u, !.res = "Paused"]
    /\ UNCHANGED <<lb, referrals, ads, budget, pend>>

\* 'home_exit': the summary is sent, nothing is written
HomeExit(u) ==
    /\ out' = [NoOut EXCEPT !.op = "home_exit", !.u = u,
                  !.res = IF users[u].exists /\ users[u].sess.has
                          THEN "Paused" ELSE "Menu"]
    /\ UNCHANGED <<users, lb, referrals, ads, budget, pend>>

\* admin_message_handler, state 'awaiting_ad': a new active ad, ordered by time
AdminAddAd ==
    /\ Len(ads) < MaxAds
    /\ ads' = Append(ads, [id |-> Len(ads) + 1, oi |-> Len(ads) + 1, active |-> TRUE])
    /\ out' = [NoOut EXCEPT !.op = "admin_ad"]
    /\ UNCHANGED <<users, lb, referrals, budget, pend>>

\* the claimed question numbers the environment submits: the question already
\* answered, the one due, and the one after it
ClaimedNumbers(u) ==
    {n \in {users[u].sess.idx + k : k \in 0..2} : n >= 1}

Next ==
    \/ \E u \in Users : \E in \in StartInputs(u, users[u].exists) : Start(u, in[1], in[2])
    \/ \E u \in QuizUsers, d \in Depts : StartQuiz(u, d)
    \/ \E u \in QuizUsers, o \in Choices : \E n \in ClaimedNumbers(u) : Answer(u, n, o)
    \/ \E u \in QuizUsers : NextQuestion(u)
    \/ \E u \in QuizUsers, d \in RefDepts \cup {NoDept} : CheckLock(u, d)
    \/ \E u \in QuizUsers : HomeExit(u)
    \/ AdminAddAd

Spec == Init /\ [][Next]_vars

----------------------------------------------------------------------------
(* The handlers as concurrent units of work. handle_answer reads the user  *)
(* document (line 464) and later sends its increments (line 500);          *)
(* next_question_handler reads the document (line 572) and send_question   *)
(* later works on that copy of the session. Nothing holds the document in  *)
(* between, so the steps of several handlers interleave.                   *)

Request(op, u, snap, q_num, selected_opt) ==
    [op |-> op, u |-> u, snap |-> snap, qn |-> q_num, opt |-> selected_opt]

Remove(seq, i) == [j \in 1..(Len(seq) - 1) |-> IF j < i THEN seq[j] ELSE seq[j + 1]]

\* lines 462-474: read the session, return on SessionExpired or StaleAnswer
ReadAnswer(u, q_num, selected_opt) ==
    LET verdict == AnswerVerdict(users[u], q_num)
    IN  /\ Len(pend) < MaxPend
        /\ verdict = "Accepted" => budget.answers > 0
        /\ IsCorrect(users[u].sess.dept, q_num, selected_opt) => users[u].tc < MaxCorrect
        /\ IF verdict = "Accepted"
           THEN /\ pend' = Append(pend, Request("ans", u, users[u], q_num, selected_opt))
                /\ out' = [NoOut EXCEPT !.op = "read", !.u = u]
           ELSE /\ pend' = pend
                /\ out' = [NoOut EXCEPT !.op = "ans", !.u = u, !.res = verdict,
                                        !.qn = q_num]
        /\ budget' = Spend(FALSE, FALSE, verdict = "Accepted")
        /\ UNCHANGED <<users, lb, referrals, ads>>

\* lines 486-534: the increments of an accepted answer reach the store
WriteAnswer(i) ==
    LET req == pend[i]
        r == handle_answer(users, lb, req.u, req.snap, req.qn, req.opt)
    IN  /\ req.op = "ans"
        /\ users' = r.users
        /\ lb' = r.lb
        /\ pend' = Remove(pend, i)
        /\ out' = [NoOut EXCEPT !.op = "ans", !.u = req.u, !.res = r.res, !.qn = req.qn]
        /\ UNCHANGED <<referrals, ads, budget>>

\* lines 572-573: next_question_handler reads the session
ReadNext(u) ==
    /\ Len(pend) < MaxPend
    /\ users[u].exists
    /\ pend' = Append(pend, Request("next", u, users[u], 0, "a"))
    /\ out' = [NoOut EXCEPT !.op = "read", !.u = u]
    /\ UNCHANGED <<users, lb, referrals, ads, budget>>

\* line 574: send_question runs on the session read before
DeliverNext(i) ==
    LET req == pend[i]
        r == next_question_handler(users, ads, req.u, req.snap)
    IN  /\ req.op = "next"
        /\ AdBreaksBounded(r.users)
        /\ users' = r.users
        /\ pend' = Remove(pend, i)
        /\ out' = Emit("next", req.u, r, NoArg)
        /\ UNCHANGED <<lb, referrals, ads, budget>>

InitConc ==
    /\ \/ EmptyStore
       \/ Checkpoint(1, "d1", 4)
    /\ ads = <<>>
    /\ out = NoOut
    /\ budget = [answers |-> MaxAnswers, starts |-> MaxStarts, contacts |-> 0]
    /\ pend = <<>>

NextConc ==
    \/ \E u \in QuizUsers : \E in \in StartInputs(u, users[u].exists) :
          Start(u, in[1], in[2])
    \/ \E u \in QuizUsers, d \in RefDepts : StartQuiz(u, d)
    \/ \E u \in QuizUsers, o \in Choices : \E n \in ClaimedNumbers(u) : ReadAnswer(u, n, o)
    \/ \E i \in 1..Len(pend) : WriteAnswer(i)
    \/ \E u \in QuizUsers : ReadNext(u)
    \/ \E i \in 1..Len(pend) : DeliverNext(i)
    \/ AdminAddAd

SpecConc == InitConc /\ [][NextConc]_vars

----------------------------------------------------------------------------
(* start as a concurrent unit of work: it reads the user document at line  *)
(* 196 and, if there was none, create_user writes later (lines 88-130).    *)
(* Two /start updates of the same user can both have read before either    *)
(* writes.                                                                 *)

Invited == Users \ QuizUsers

StartRequest(u, snap, arg, is_member) ==
    [op |-> "start", u |-> u, snap |-> snap, arg |-> arg, member |-> is_member]

\* line 196: user_data = get_user_data(user.id)
ReadStart(u, arg, is_member) ==
    /\ Len(pend) < MaxPend
    /\ ~users[u].exists => budget.contacts > 0
    /\ pend' = Append(pend, StartRequest(u, users[u], arg, is_member))
    /\ budget' = Spend(FALSE, ~users[u].exists, FALSE)
    /\ out' = [NoOut EXCEPT !.op = "read", !.u = u]
    /\ UNCHANGED <<users, lb, referrals, ads>>

\* lines 199-277: the rest of start, on the document read before
FinishStart(i) ==
    LET req == pend[i]
        r == start(users, referrals, ads, req.u, req.snap, req.arg, req.member)
    IN  /\ users' = r.users
        /\ referrals' = r.referrals
        /\ pend' = Remove(pend, i)
        /\ out' = [Emit("start", req.u, r, req.arg) EXCEPT
                      !.sig = r.sig, !.sigdept = r.sigdept, !.new = ~req.snap.exists]
        /\ UNCHANGED <<lb, ads, budget>>

InitConcStart ==
    /\ \/ EmptyStore
       \/ Checkpoint(1, "d1", 24)
    /\ ads = <<>>
    /\ out = NoOut
    /\ budget = [answers |-> 0, starts |-> 0, contacts |-> MaxContacts]
    /\ pend = <<>>

NextConcStart ==
    \/ \E u \in Invited : \E in \in StartInputs(u, users[u].exists) :
          ReadStart(u, in[1], in[2])
    \/ \E i \in 1..Len(pend) : FinishStart(i)

SpecConcStart == InitConcStart /\ [][NextConcStart]_vars

----------------------------------------------------------------------------
(* handle_answer when store calls fail. The writes of an accepted answer   *)
(* are separate calls: user_doc.update (line 500, not guarded: an          *)
(* exception leaves the handler), lb_ref.update of attempts (lines         *)
(* 515-518), lb_ref.update of correct (lines 519-520), and on an exception *)
(* of either the merge-set of lines 521-531; an exception of that one is   *)
(* logged at line 533 and the handler goes on.                             *)

Failures == {"none", "user_update", "lb_attempts", "lb_correct", "lb_all"}

\* lb_ref.set(init, merge=True): attempts 1 and correct 0 or 1 are stored
InitLeaderboard(L, user_id, dept, is_correct) ==
    [L EXCEPT ![user_id].exists = TRUE,
              ![user_id].departments[dept] =
                  [attempts |-> 1, correct |-> IF is_correct THEN 1 ELSE 0]]

UpdateLeaderboardFailing(L, user_id, dept, is_correct, fail) ==
    IF dept \notin Depts THEN L
    ELSE IF fail = "lb_all" THEN L
    ELSE IF fail = "lb_attempts" \/ (fail = "lb_correct" /\ is_correct)
    THEN InitLeaderboard(L, user_id, dept, is_correct)
    ELSE UpdateLeaderboard(L, user_id, dept, is_correct)

handle_answer_failing(U, L, user_id, snap, q_num, selected_opt, fail) ==
    LET r == handle_answer(U, L, user_id, snap, q_num, selected_opt)
        is_correct == IsCorrect(snap.sess.dept, q_num, selected_opt)
    IN  IF r.res # "Accepted" THEN r
        ELSE IF fail = "user_update"
        THEN [users |-> U, lb |-> L, res |-> "Error", correct |-> FALSE]
        ELSE [r EXCEPT !.lb = UpdateLeaderboardFailing(L, user_id, snap.sess.dept,
                                                       is_correct, fail)]

AnswerFailing(u, q_num, selected_opt, fail) ==
    LET r == handle_answer_failing(users, lb, u, users[u], q_num, selected_opt, fail)
    IN  /\ r.res = "Accepted" => budget.answers > 0
        /\ r.correct => users[u].tc < MaxCorrect
        /\ users' = r.users
        /\ lb' = r.lb
        /\ budget' = Spend(FALSE, FALSE, r.res = "Accepted")
        /\ out' = [NoOut EXCEPT !.op = "ans", !.u = u, !.res = r.res, !.qn = q_num]
        /\ UNCHANGED <<referrals, ads, pend>>

InitFail ==
    /\ \/ EmptyStore
       \/ Checkpoint(1, "d1", 4)
    /\ ads = <<>>
    /\ out = NoOut
    /\ budget = [answers |-> MaxAnswers, starts |-> MaxStarts, contacts |-> 0]
    /\ pend = <<>>

NextFail ==
    \/ \E u \in QuizUsers : \E in \in StartInputs(u, users[u].exists) :
          Start(u, in[1], in[2])
    \/ \E u \in QuizUsers, d \in RefDepts : StartQuiz(u, d)
    \/ \E u \in QuizUsers, o \in Choices, f \in Failures :
          \E n \in ClaimedNumbers(u) : AnswerFailing(u, n, o, f)
    \/ \E u \in QuizUsers : NextQuestion(u)

SpecFail == InitFail /\ [][NextFail]_vars

----------------------------------------------------------------------------
(* get_ad_to_show on its own: any stored ads collection (ads added by the  *)
(* admin handler, some switched off in the console, some saved within the  *)
(* same second), and any ad break counter.                                 *)

AdDocs(n) ==
    [1..n -> [id : 1..n, oi : 1..MaxOrderIndex, active : BOOLEAN]]

AdCollections ==
    UNION {{A \in AdDocs(n) : \A i \in 1..n : A[i].id = i} : n \in 0..MaxStoredAds}

InitAds ==
    /\ EmptyStore
    /\ ads \in AdCollections
    /\ out = NoOut
    /\ budget = [answers |-> 0, starts |-> 0, contacts |-> 0]
    /\ pend = <<>>

ShowAd(current_index) ==
    /\ out' = [NoOut EXCEPT !.op = "ad", !.brk = current_index,
                            !.ad = get_ad_to_show(ads, current_index)]
    /\ UNCHANGED <<users, lb, referrals, ads, budget, pend>>

NextAds == \E k \in 0..MaxBreakCounter : ShowAd(k)

SpecAds == InitAds /\ [][NextAds]_vars

----------------------------------------------------------------------------
(* One user working through a quiz: the user presses 'next' (or resumes),  *)
(* answers the question that was delivered with one of its buttons, and    *)
(* does nothing else. The department of the session holds questions        *)
(* 1..100; it is unlocked for the user or not; an ad is active or not.     *)

Options == {<<>>, <<[id |-> 1, oi |-> 1, active |-> TRUE]>>}

\* the user's document after start_quiz, with or without two referrals for d
QuizStore(u, d, unlocked) ==
    LET invited == IF unlocked THEN {2, 3} ELSE {}
        n == Cardinality(invited)
    IN  /\ users = [v \in Users |->
                      IF v = u
                      THEN [FreshUser EXCEPT
                               !.rc[d] = n,
                               !.ul[d] = (n >= REFERRAL_THRESHOLD),
                               !.sess = NewSession(d)]
                      ELSE IF v \in invited THEN FreshUser
                      ELSE NoUserDoc]
        /\ lb = [v \in Users |-> NoLbDoc]
        /\ referrals = [k \in RefKeys |->
                          IF k[1] = u /\ k[2] \in invited /\ k[3] = d THEN 1 ELSE 0]

InitProgress ==
    /\ \E unlocked \in BOOLEAN : QuizStore(1, "d1", unlocked)
    /\ ads \in Options
    /\ out = NoOut
    /\ budget = [answers |-> 0, starts |-> 0, contacts |-> 0]
    /\ pend = <<>>

\* 'next_question' / 'resume_session': pressed once per answered question
Advance(u) ==
    LET r == next_question_handler(users, ads, u, users[u])
    IN  /\ out.op # "next"
        /\ users' = r.users
        /\ out' = Emit("next", u, r, NoArg)
        /\ UNCHANGED <<lb, referrals, ads, budget, pend>>

\* a button 'ans_<o>_<q_num>' of the question message just delivered
SubmitAnswer(u, selected_opt) ==
    LET q_num == out.q
        r == handle_answer(users, lb, u, users[u], q_num, selected_opt)
    IN  /\ out.op = "next" /\ out.u = u /\ out.res = "Question"
        /\ users' = r.users
        /\ lb' = r.lb
        /\ out' = [NoOut EXCEPT !.op = "ans", !.u = u, !.res = r.res, !.qn = q_num]
        /\ UNCHANGED <<referrals, ads, budget, pend>>

NextProgress ==
    \/ \E u \in QuizUsers : Advance(u)
    \/ \E u \in QuizUsers, o \in Choices : SubmitAnswer(u, o)

\* the user keeps going: a button that stays on offer is pressed; each
\* handler runs to its end (no loop, a bounded sleep at an ad break)
FairProgress ==
    /\ WF_vars(\E u \in QuizUsers : Advance(u))
    /\ WF_vars(\E u \in QuizUsers, o \in Choices : SubmitAnswer(u, o))

SpecProgress == InitProgress /\ [][NextProgress]_vars /\ FairProgress

----------------------------------------------------------------------------
(* Properties *)

Sess(u) == users[u].sess
Locked(u) == Sess(u).has /\ ~Unlocked(users[u], Sess(u).dept)

(* C1: in every reachable state, every user that has a session has        *)
(* current_question_index equal to attempted_in_session.                  *)
C1_IndexEqualsAttempted ==
    \A u \in Users : Sess(u).has => Sess(u).idx = Sess(u).attempted

\* the quiz was completed: 100 answers accepted, Completed delivered
C1_Witness ==
    /\ out.op = "next" /\ out.res = "Completed"
    /\ Sess(out.u).idx = QUIZ_LENGTH /\ Sess(out.u).attempted = QUIZ_LENGTH
    /\ ~Sess(out.u).active

(* C2: a rejected answer submission (no session, session not active, or   *)
(* claimed number different from current_question_index + 1) leaves the   *)
(* user record and the leaderboard entry unchanged, and is answered       *)
(* SessionExpired or StaleAnswer.                                         *)
C2_RejectedAnswerChangesNothing ==
    [][(/\ out'.op = "ans"
        /\ \/ ~Sess(out'.u).has
           \/ ~Sess(out'.u).active
           \/ out'.qn # Sess(out'.u).idx + 1)
       => /\ users' = users
          /\ lb' = lb
          /\ users[out'.u].exists =>
                out'.res = IF ~Sess(out'.u).has \/ ~Sess(out'.u).active
                           THEN "SessionExpired" ELSE "StaleAnswer"]_vars

\* a stale answer was rejected on a session that has accepted answers before
C2_Witness ==
    /\ out.op = "ans" /\ out.res = "StaleAnswer"
    /\ Sess(out.u).active /\ Sess(out.u).idx = 5 /\ out.qn = 5

(* C3: when a user submits two answers carrying the same claimed question *)
(* number and the first is accepted, the second does not advance          *)
(* current_question_index, attempted_in_session or totalAttempts again.   *)
C3_DoubleSubmitAdvancesOnce ==
    [][(/\ out.op = "ans" /\ out.res = "Accepted"
        /\ out'.op = "ans" /\ out'.u = out.u /\ out'.qn = out.qn)
       => /\ users'[out.u].sess.idx = Sess(out.u).idx
          /\ users'[out.u].sess.attempted = Sess(out.u).attempted
          /\ users'[out.u].ta = users[out.u].ta]_vars

(* C4: the pipeline never emits a question for a session at index 25 in a *)
(* department that is not unlocked (an advance emits Locked), and an      *)
(* advance at an index below 25 emits question index + 1 whether or not   *)
(* the department is unlocked, when that question exists.                 *)
C4_LockedAtPreviewLimit ==
    [][/\ out'.res = "Question" =>
            /\ out'.q = users'[out'.u].sess.idx + 1
            /\ ~(/\ users'[out'.u].sess.idx = PREVIEW_LIMIT
                 /\ ~Unlocked(users'[out'.u], users'[out'.u].sess.dept))
       /\ (/\ out'.op \in {"next", "check_lock"}
           /\ Sess(out'.u).has /\ Sess(out'.u).idx = PREVIEW_LIMIT
           /\ ~Unlocked(users[out'.u], Sess(out'.u).dept))
          => /\ out'.res \in {"Locked", "NotUnlocked"}
             /\ out'.q = 0
             /\ out'.op = "next" => out'.res = "Locked"
       /\ (/\ out'.op = "next"
           /\ Sess(out'.u).has /\ Sess(out'.u).idx < PREVIEW_LIMIT
           /\ Sess(out'.u).idx + 1 \in QuestionNumbers(Sess(out'.u).dept))
          => /\ out'.res = "Question"
             /\ out'.q = Sess(out'.u).idx + 1]_vars

\* an advance at index 25 in a locked department was answered Locked
C4_Witness ==
    /\ out.op = "next" /\ out.res = "Locked" /\ out.q = 0
    /\ Sess(out.u).idx = PREVIEW_LIMIT /\ Locked(out.u)

(* C5: while a department is not unlocked for a user, the user's session  *)
(* in that department never has current_question_index above 25.          *)
C5_PreviewCap ==
    \A u \in Users : Locked(u) => Sess(u).idx <= PREVIEW_LIMIT

(* C6: the 'newly unlocked' signal for an (inviter, department) pair is   *)
(* produced only when referral_counts[department] >= 2 and the department *)
(* was not unlocked before, hence at most once.                           *)
C6_UnlockSignalOnce ==
    [][(out'.op = "start" /\ out'.sig # NoUser)
       => /\ users'[out'.sig].rc[out'.sigdept] >= REFERRAL_THRESHOLD
          /\ ~users[out'.sig].ul[out'.sigdept]]_vars

(* C7: a first contact whose referral names the new user itself, or no    *)
(* department, records nothing: no referral_counts entry, no Referral     *)
(* record and no unlocked_departments flag of any user changes.           *)
C7_InvalidReferralNoOp ==
    [][(/\ out'.op = "start" /\ out'.arg.kind = "ref"
        /\ out'.arg.inviter = out'.u \/ out'.arg.dept = NoDept)
       => /\ referrals' = referrals
          /\ \A v \in Users : /\ users'[v].rc = users[v].rc
                              /\ users'[v].ul = users[v].ul]_vars

\* a new user made first contact through its own referral link
C7_Witness ==
    /\ out.op = "start" /\ out.new /\ out.arg = RefArg(out.u, "d1")
    /\ users[out.u].exists /\ users[out.u].rc["d1"] = 0

\* the users whose first contact recorded a referral for inviter i, department d
Referred(R, i, d) == {v \in Users : R[<<i, v, d>>] > 0}

C10_AdBreakKeepsIndex ==
    [][/\ (/\ out'.op = "ans" /\ out'.qn = AD_INTERVAL
           /\ Sess(out'.u).has /\ Sess(out'.u).active
           /\ Sess(out'.u).idx = AD_INTERVAL - 1 /\ Sess(out'.u).adc = 0
           /\ AD_INTERVAL \in QuestionNumbers(Sess(out'.u).dept))
          => /\ out'.res = "Accepted"
             /\ users'[out'.u].sess.idx = AD_INTERVAL
             /\ users'[out'.u].sess.adc = 0
       /\ (/\ out'.op = "next"
           /\ Sess(out'.u).has
           /\ Sess(out'.u).idx = AD_INTERVAL /\ Sess(out'.u).adc = 0
           /\ Len(ActiveAds(ads)) >= 1
           /\ AD_INTERVAL + 1 \in QuestionNumbers(Sess(out'.u).dept))
          => /\ out'.ad = ActiveAds(ads)[1].id
             /\ users'[out'.u].sess.adc = 1
             /\ out'.res = "Question"
             /\ out'.q = AD_INTERVAL + 1
             /\ users'[out'.u].sess.idx = AD_INTERVAL]_vars

\* the answer to question 5 was accepted and the next advance showed an ad
C10_Witness ==
    /\ out.op = "next" /\ out.ad # NoAd /\ out.res = "Question"
    /\ out.q = AD_INTERVAL + 1
    /\ Sess(out.u).idx = AD_INTERVAL /\ Sess(out.u).adc = 1
    /\ users[out.u].ta = AD_INTERVAL

(* C11: a session at index 99 that accepts an answer reaches index 100;   *)
(* the next delivery emits Completed, with no question and no ad, and     *)
(* sets sessionActive to false; an answer submitted after that is         *)
(* rejected as SessionExpired; a start of the same department then gives  *)
(* an active session with index, attempted, correct and ad_break_counter  *)
(* all 0.                                                                 *)
C11_CompletionThenFreshStart ==
    [][/\ (/\ out'.op = "ans" /\ out'.qn = QUIZ_LENGTH
           /\ Sess(out'.u).has /\ Sess(out'.u).active
           /\ Sess(out'.u).idx = QUIZ_LENGTH - 1
           /\ QUIZ_LENGTH \in QuestionNumbers(Sess(out'.u).dept))
          => /\ out'.res = "Accepted"
             /\ users'[out'.u].sess.idx = QUIZ_LENGTH
       /\ (/\ out'.op = "next"
           /\ Sess(out'.u).has /\ Sess(out'.u).idx = QUIZ_LENGTH)
          => /\ out'.res = "Completed" /\ out'.q = 0 /\ out'.ad = NoAd
             /\ ~users'[out'.u].sess.active
       /\ (/\ out'.op = "ans"
           /\ Sess(out'.u).has /\ Sess(out'.u).idx = QUIZ_LENGTH
           /\ ~Sess(out'.u).active)
          => /\ out'.res = "SessionExpired"
             /\ users'[out'.u] = users[out'.u]
       /\ (/\ out'.op = "dept"
           /\ Sess(out'.u).has /\ Sess(out'.u).idx = QUIZ_LENGTH
           /\ ~Sess(out'.u).active
           /\ out'.arg.dept = Sess(out'.u).dept)
          => users'[out'.u].sess = NewSession(out'.arg.dept)]_vars

\* Completed was delivered (the session at index 100 is inactive), an answer
\* was then rejected as SessionExpired, and the department can be started again
C11_Witness ==
    /\ out.op = "ans" /\ out.res = "SessionExpired"
    /\ Sess(out.u).idx = QUIZ_LENGTH /\ ~Sess(out.u).active
    /\ users[out.u].ta = QUIZ_LENGTH
    /\ ENABLED StartQuiz(out.u, Sess(out.u).dept)

\* the stored ads that are active, and those of them ordered before order_index oi
StoredActive == {i \in 1..Len(ads) : ads[i].active}
ActiveBelow(oi) == {i \in StoredActive : ads[i].oi < oi}
ActiveUpTo(oi) == {i \in StoredActive : ads[i].oi <= oi}

(* C12: the ad selected for break counter k is the active ad at position  *)
(* k mod n in ascending order_index, n being the number of active ads;    *)
(* the selection for k + n is the same; an inactive ad is never selected; *)
(* and no ad is selected exactly when no ad is active.                    *)
C12_AdSelectionCircular ==
    out.op = "ad" =>
        LET n == Cardinality(StoredActive)
            k == out.brk
        IN  /\ (out.ad = NoAd) <=> (n = 0)
            /\ n > 0 =>
                  /\ out.ad \in StoredActive
                  /\ Cardinality(ActiveBelow(ads[out.ad].oi)) <= k % n
                  /\ k % n < Cardinality(ActiveUpTo(ads[out.ad].oi))
                  /\ get_ad_to_show(ads, k + n) = out.ad

\* the selection wrapped around two or more active ads, past an inactive one
C12_Witness ==
    /\ out.op = "ad" /\ out.ad # NoAd
    /\ Cardinality(StoredActive) = 2 /\ Len(ads) = 3
    /\ out.brk >= 2
    /\ \E i \in StoredActive, j \in 1..Len(ads) \ StoredActive :
          ads[j].oi < ads[i].oi /\ out.ad = i

(* C13: a start of a department that does not exist or has no question    *)
(* fails with InvalidDepartment and leaves the user's document, the       *)
(* existing session included, unchanged.                                  *)
C13_InvalidDepartmentRejected ==
    [][(/\ out'.op = "dept" /\ users[out'.u].exists
        /\ QuestionNumbers(out'.arg.dept) = {})
       => /\ out'.res = "InvalidDepartment"
          /\ users'[out'.u] = users[out'.u]]_vars

(* C14: a successful start of a department, whatever session the user had *)
(* before, leaves exactly the new session: that department, index 0,      *)
(* correct 0, attempted 0, ad_break_counter 0, active; totalAttempts,     *)
(* totalCorrect, referral_counts and unlocked_departments are unchanged.  *)
C14_StartOverwritesSession ==
    [][(/\ out'.op \in {"dept", "start"} /\ out'.arg.kind = "dept"
        /\ out'.res = "Question")
       => /\ users'[out'.u].sess = NewSession(out'.arg.dept)
          /\ out'.q = 1
          /\ users'[out'.u].ta = users[out'.u].ta
          /\ users'[out'.u].tc = users[out'.u].tc
          /\ users'[out'.u].rc = users[out'.u].rc
          /\ users'[out'.u].ul = users[out'.u].ul]_vars

\* a department was started over a session that had a correct answer and stood
\* locked at index 25
C14_Witness ==
    /\ out.op = "dept" /\ out.res = "Question"
    /\ Sess(out.u) = NewSession(out.arg.dept)
    /\ users[out.u].ta = PREVIEW_LIMIT /\ users[out.u].tc = 1
    /\ \A d \in Depts : ~users[out.u].ul[d]

(* C15: the confirmed exit sets sessionActive to false and leaves the     *)
(* department, current_question_index, attempted_in_session,              *)
(* correct_in_session and ad_break_counter of the session unchanged; an   *)
(* answer submitted after it is rejected as SessionExpired.               *)
C15_PauseDeactivatesSession ==
    [][/\ (out'.op = "home_exit" /\ Sess(out'.u).has)
          => /\ ~users'[out'.u].sess.active
             /\ users'[out'.u].sess = [Sess(out'.u) EXCEPT !.active = FALSE]
       /\ (/\ out.op = "home_exit" /\ out.res = "Paused"
           /\ out'.op = "ans" /\ out'.u = out.u)
          => out'.res = "SessionExpired"]_vars

(* C16: an advance (next question, resume, or the advance made by a       *)
(* check-unlock) leaves current_question_index, attempted_in_session,     *)
(* correct_in_session, totalAttempts and totalCorrect as they were,       *)
(* whichever outcome the pipeline emits.                                  *)
C16_AdvanceConsumesNoIndex ==
    [][(out'.op \in {"next", "check_lock"} /\ users[out'.u].exists)
       => /\ out'.res \in Delivered \cup {"NotUnlocked", "Error"}
          /\ users'[out'.u].sess.idx = Sess(out'.u).idx
          /\ users'[out'.u].sess.attempted = Sess(out'.u).attempted
          /\ users'[out'.u].sess.correct = Sess(out'.u).correct
          /\ users'[out'.u].ta = users[out'.u].ta
          /\ users'[out'.u].tc = users[out'.u].tc]_vars

\* an advance persisted an ad break on a session with a correct answer
C16_Witness ==
    /\ out.op = "next" /\ out.res = "Question" /\ out.ad # NoAd
    /\ Sess(out.u).adc = 1 /\ Sess(out.u).idx = AD_INTERVAL
    /\ Sess(out.u).correct = 1 /\ users[out.u].tc = 1

(* C17: when the question due (index + 1) does not exist in the session's *)
(* department, the pipeline emits NotFound and the session is ended:      *)
(* sessionActive is false afterwards.                                     *)
C17_NotFoundEndsSession ==
    [][(out'.res = "NotFound")
       => /\ users'[out'.u].sess.idx + 1
                \notin QuestionNumbers(users'[out'.u].sess.dept)
          /\ ~users'[out'.u].sess.active]_vars

C19_AnswerRecordedAllOrNothing ==
    [][(out'.op = "ans" /\ users[out'.u].exists)
       => LET u == out'.u
              d == Sess(u).dept
          IN  IF users'[u].ta = users[u].ta + 1
              THEN /\ users'[u].sess.idx = Sess(u).idx + 1
                   /\ users'[u].sess.attempted = Sess(u).attempted + 1
                   /\ users'[u].sess.correct - Sess(u).correct
                         = users'[u].tc - users[u].tc
                   /\ lb'[u].departments[d].attempts
                         = lb[u].departments[d].attempts + 1
                   /\ lb'[u].departments[d].correct - lb[u].departments[d].correct
                         = users'[u].tc - users[u].tc
              ELSE /\ out'.res # "Accepted"
                   /\ users'[u] = users[u]
                   /\ lb'[u] = lb[u]]_vars

(* C20: whenever the pipeline emits a question, the user has a session    *)
(* and its sessionActive is true; an advance or check-unlock of a user    *)
(* with no session or an inactive session emits no question.              *)
C20_QuestionsOnlyWhenActive ==
    [][/\ out'.res = "Question"
          => /\ users'[out'.u].sess.has
             /\ users'[out'.u].sess.active
       /\ (/\ out'.op \in {"next", "check_lock"}
           /\ \/ ~users[out'.u].exists
              \/ ~Sess(out'.u).has
              \/ ~Sess(out'.u).active)
          => /\ out'.res # "Question"
             /\ out'.q = 0]_vars

\* an advance of a user who has a document and no session emitted no question
C20_Witness ==
    /\ out.op = "next" /\ out.res = "Error" /\ out.q = 0
    /\ users[out.u].exists /\ ~Sess(out.u).has

(* C21: an accepted answer (active session, claimed number = index + 1,   *)
(* question stored) increments attempted_in_session,                      *)
(* current_question_index and totalAttempts by 1 each, increments         *)
(* correct_in_session and totalCorrect by 1 each exactly when the choice  *)
(* equals the answer key, and leaves department_id, sessionActive,        *)
(* ad_break_counter, referral_counts and unlocked_departments unchanged.  *)
C21_AcceptedAnswerIncrements ==
    [][\A u \in QuizUsers, o \in Choices :
          (/\ out'.op = "ans" /\ out'.qn = Sess(u).idx + 1
           /\ Sess(u).has /\ Sess(u).active
           /\ Sess(u).idx + 1 \in QuestionNumbers(Sess(u).dept)
           /\ Answer(u, Sess(u).idx + 1, o))
          => LET c == IF o = AnswerKey(Sess(u).dept, Sess(u).idx + 1) THEN 1 ELSE 0
             IN  /\ out'.res = "Accepted"
                 /\ users'[u].sess.attempted = Sess(u).attempted + 1
                 /\ users'[u].sess.idx = Sess(u).idx + 1
                 /\ users'[u].ta = users[u].ta + 1
                 /\ users'[u].sess.correct = Sess(u).correct + c
                 /\ users'[u].tc = users[u].tc + c
                 /\ users'[u].sess.dept = Sess(u).dept
                 /\ users'[u].sess.active = Sess(u).active
                 /\ users'[u].sess.adc = Sess(u).adc
                 /\ users'[u].rc = users[u].rc
                 /\ users'[u].ul = users[u].ul]_vars

\* question 25 was answered with its key: one correct answer in 25 attempts
C21_Witness ==
    /\ out.op = "ans" /\ out.res = "Accepted" /\ out.qn = PREVIEW_LIMIT
    /\ Sess(out.u).idx = PREVIEW_LIMIT /\ Sess(out.u).attempted = PREVIEW_LIMIT
    /\ Sess(out.u).correct = 1 /\ users[out.u].tc = 1
    /\ users[out.u].ta = PREVIEW_LIMIT

(* C22: the choice is compared with the stored answer key up to letter    *)
(* case: an accepted answer whose choice equals the key when both are     *)
(* lower-cased is counted as correct.                                     *)
C22_AnswerKeyCaseNormalized ==
    [][\A u \in QuizUsers, o \in Choices :
          (/\ out'.op = "ans" /\ out'.qn = Sess(u).idx + 1
           /\ Sess(u).has /\ Sess(u).active
           /\ Sess(u).idx + 1 \in QuestionNumbers(Sess(u).dept)
           /\ Answer(u, Sess(u).idx + 1, o)
           /\ Lower(o) = Lower(AnswerKey(Sess(u).dept, Sess(u).idx + 1)))
          => /\ users'[u].sess.correct = Sess(u).correct + 1
             /\ users'[u].tc = users[u].tc + 1]_vars

(* C23: under any interleaving of one user's answers and advances, no     *)
(* accepted answer's increments are lost: as long as the session is not   *)
(* started anew, current_question_index and attempted_in_session never    *)
(* decrease, and attempted_in_session grows in step with totalAttempts.   *)
C23_NoLostAnswerUpdate ==
    [][\A u \in QuizUsers :
          (/\ Sess(u).has
           /\ ~(out'.op \in {"dept", "start"} /\ out'.u = u))
          => /\ users'[u].sess.idx >= Sess(u).idx
             /\ users'[u].sess.attempted >= Sess(u).attempted
             /\ users'[u].sess.attempted - Sess(u).attempted
                   = users'[u].ta - users[u].ta]_vars

\* the sums over the departments of a user's leaderboard entry
LbTotal(L, u, field) ==
    LET RECURSIVE Sum(_)
        Sum(S) == IF S = {} THEN 0
                  ELSE LET d == CHOOSE x \in S : TRUE
                       IN  L[u].departments[d][field] + Sum(S \ {d})
    IN  Sum(Depts)

(* C24: every accepted answer increments the attempts of the user's       *)
(* leaderboard entry for the session's department by 1 and its correct    *)
(* count by 1 exactly when totalCorrect grows, creating the entry if      *)
(* absent; so a user's leaderboard attempts summed over the departments   *)
(* equal totalAttempts, the correct counts sum to totalCorrect, and       *)
(* correct <= attempts in each department.                                *)
C24_LeaderboardMatchesTotals ==
    [][/\ (out'.op = "ans" /\ out'.res = "Accepted")
          => LET u == out'.u
                 d == Sess(u).dept
             IN  /\ lb'[u].exists
                 /\ lb'[u].departments[d].attempts = lb[u].departments[d].attempts + 1
                 /\ lb'[u].departments[d].correct - lb[u].departments[d].correct
                       = users'[u].tc - users[u].tc
                 /\ \A e \in Depts \ {d} : lb'[u].departments[e] = lb[u].departments[e]
       /\ \A u \in Users :
             /\ LbTotal(lb', u, "attempts") = users'[u].ta
             /\ LbTotal(lb', u, "correct") = users'[u].tc
             /\ \A d \in Depts :
                   lb'[u].departments[d].correct <= lb'[u].departments[d].attempts]_vars

\* the first accepted answer of a user, a correct one, created the entry
C24_Witness ==
    /\ out.op = "ans" /\ out.res = "Accepted" /\ out.qn = 1
    /\ lb[out.u].exists
    /\ lb[out.u].departments[Sess(out.u).dept] = [attempts |-> 1, correct |-> 1]
    /\ users[out.u].ta = 1 /\ users[out.u].tc = 1

(* C25: with no active ad, an advance at an ad-break index (a positive    *)
(* multiple of 5 below 100, not locked) emits question index + 1 with no  *)
(* ad and leaves ad_break_counter unchanged; and ad_break_counter counts  *)
(* the ads selected since the session started: a started session has      *)
(* counter 0 and no ad, and every later step adds 1 to the counter        *)
(* exactly when it selects an ad.                                         *)
C25_AdCounterCountsSelectedAds ==
    [][/\ (/\ out'.op = "next" /\ Sess(out'.u).has
           /\ AdDue(Sess(out'.u)) /\ Sess(out'.u).idx < QUIZ_LENGTH
           /\ ~LockCheck(users, out'.u, Sess(out'.u))
           /\ Len(ActiveAds(ads)) = 0
           /\ Sess(out'.u).idx + 1 \in QuestionNumbers(Sess(out'.u).dept))
          => /\ out'.res = "Question" /\ out'.q = Sess(out'.u).idx + 1
             /\ out'.ad = NoAd
             /\ users'[out'.u].sess.adc = Sess(out'.u).adc
       /\ \A u \in Users :
             IF /\ out'.op \in {"dept", "start"} /\ out'.u = u
                /\ out'.res \in Delivered
             THEN users'[u].sess.adc = 0 /\ out'.ad = NoAd
             ELSE users'[u].sess.adc - Sess(u).adc
                     = IF out'.u = u /\ out'.ad # NoAd THEN 1 ELSE 0]_vars

\* no ad is stored: the advance at index 5 delivered question 6 without an ad
C25_Witness ==
    /\ out.op = "next" /\ out.res = "Question" /\ out.q = AD_INTERVAL + 1
    /\ out.ad = NoAd /\ Len(ActiveAds(ads)) = 0
    /\ Sess(out.u).idx = AD_INTERVAL /\ Sess(out.u).adc = 0

(* C26: the pipeline tests the lock, then completion, then the ad break,  *)
(* then fetches the question: a delivery that emits Locked or Completed   *)
(* selects no ad and leaves ad_break_counter unchanged although 25 and    *)
(* 100 are multiples of 5; an advance at index >= 100 emits Completed and *)
(* nothing else; and Locked leaves sessionActive (the whole user          *)
(* document) unchanged.                                                   *)
C26_PipelineOrder ==
    [][/\ out'.res = "Locked"
          => /\ out'.ad = NoAd
             /\ users'[out'.u] = users[out'.u]
       /\ out'.res = "Completed"
          => /\ out'.ad = NoAd /\ out'.q = 0
             /\ users'[out'.u].sess.adc = Sess(out'.u).adc
       /\ (/\ out'.op = "next" /\ Sess(out'.u).has
           /\ Sess(out'.u).idx >= QUIZ_LENGTH)
          => out'.res = "Completed"
       /\ (/\ out'.op = "next" /\ Sess(out'.u).has
           /\ Sess(out'.u).idx = PREVIEW_LIMIT
           /\ ~Unlocked(users[out'.u], Sess(out'.u).dept))
          => out'.res = "Locked"]_vars

\* an active ad is stored and the advance at index 25 was answered Locked,
\* the session still active and no ad break counted
C26_Witness ==
    /\ out.op = "next" /\ out.res = "Locked" /\ out.ad = NoAd
    /\ Len(ActiveAds(ads)) >= 1
    /\ Sess(out.u).idx = PREVIEW_LIMIT /\ Sess(out.u).active
    /\ Sess(out.u).adc = 0

\* the number of Referral records with inviter i and department d
RecordCount(R, i, d) ==
    LET RECURSIVE Sum(_)
        Sum(S) == IF S = {} THEN 0
                  ELSE LET v == CHOOSE x \in S : TRUE
                       IN  R[<<i, v, d>>] + Sum(S \ {v})
    IN  Sum(Users)

InvitedCount(R, v) ==
    LET RECURSIVE Sum(_)
        Sum(S) == IF S = {} THEN 0
                  ELSE LET k == CHOOSE x \in S : TRUE
                       IN  R[k] + Sum(S \ {k})
    IN  Sum({k \in RefKeys : k[2] = v})

(* C28: a referral is recorded only on the invited user's first contact:  *)
(* a start with a referral parameter by a user whose document exists      *)
(* changes no referral_counts and appends no Referral record, and each    *)
(* invited user is counted in at most one Referral record, also when two  *)
(* starts of the same new user are handled concurrently.                  *)
C28_ReferralOnlyOnFirstContact ==
    [][/\ (/\ out'.op = "start" /\ out'.arg.kind = "ref"
           /\ users[out'.u].exists)
          => /\ referrals' = referrals
             /\ \A v \in Users : users'[v].rc = users[v].rc
       /\ \A v \in Users : InvitedCount(referrals', v) <= 1]_vars

(* C29: in every session ad_break_counter <= current_question_index div 5 *)
(* (at most one ad is counted per ad-break index reached), over any       *)
(* sequence of answers and advances, repeated advance or resume at the    *)
(* same ad-break index included.                                          *)
C29_AdCounterBounded ==
    \A u \in Users :
        Sess(u).has => Sess(u).adc <= Sess(u).idx \div AD_INTERVAL

(* C30: current_question_index is between 0 and 100 inclusive in every    *)
(* session, for any department content, a department holding more than    *)
(* 100 questions and an answer for question 101 at index 100 included.    *)
C30_IndexWithinQuiz ==
    \A u \in Users :
        Sess(u).has => Sess(u).idx \in 0..QUIZ_LENGTH

(* C31: progress to completion. For a user whose department is unlocked   *)
(* and holds questions 1..100, every advance at an index below 100        *)
(* delivers the question index + 1, and, as long as the user keeps        *)
(* alternating advance and an answer to the question just delivered       *)
(* (weak fairness on both), the session eventually reaches index 100, the *)
(* pipeline emits Completed and sessionActive becomes false.              *)
C31_ProgressToCompletion ==
    /\ [][\A u \in QuizUsers :
            (/\ Sess(u).has /\ Sess(u).active
             /\ Unlocked(users[u], Sess(u).dept)
             /\ 1..QUIZ_LENGTH \subseteq QuestionNumbers(Sess(u).dept)
             /\ Sess(u).idx < QUIZ_LENGTH
             /\ Advance(u))
            => /\ out'.res = "Question"
               /\ out'.q = Sess(u).idx + 1
               /\ users'[u].sess.active]_vars
    /\ \A u \in QuizUsers :
          (/\ Sess(u).has /\ Sess(u).active
           /\ Unlocked(users[u], Sess(u).dept)
           /\ 1..QUIZ_LENGTH \subseteq QuestionNumbers(Sess(u).dept))
          ~> (/\ Sess(u).idx = QUIZ_LENGTH
              /\ out.op = "next" /\ out.u = u /\ out.res = "Completed"
              /\ ~Sess(u).active)

\* an unlocked user answered all 100 questions, passing every ad break with
\* an ad, and the advance after the last answer completed the session
C31_Witness ==
    /\ out.op = "next" /\ out.u = 1 /\ out.res = "Completed"
    /\ Unlocked(users[1], Sess(1).dept)
    /\ Sess(1).idx = QUIZ_LENGTH /\ Sess(1).attempted = QUIZ_LENGTH
    /\ Sess(1).adc = (QUIZ_LENGTH \div AD_INTERVAL) - 1
    /\ ~Sess(1).active

====
